---- MODULE Spec2Model ----
(***************************************************************************)
(* Vote casting and tally maintenance of the election platform: the votes, *)
(* elections and candidate_lists tables with their constraints, the row    *)
(* level policies, the cast_vote RPC with its AFTER INSERT trigger, the    *)
(* administrative simulation / reset procedures and the client's castVote  *)
(* pre-checks.  The committed database is the variables status,            *)
(* total_votes, votes_count and votes; a transaction in flight keeps its   *)
(* uncommitted work in tx[s] and applies it in its commit step.  Row locks *)
(* follow from the position of the transaction (READ COMMITTED: an UPDATE  *)
(* waits for the lock and then works on the latest committed version).     *)
(***************************************************************************)
EXTENDS Integers, FiniteSets, Sequences, TLC

\* ------------------------------------------------------------- bounds
\* Requests started in one behaviour.
MaxOps == 2
\* Largest count a simulated distribution gives to one list.
MaxSimCount == 1

\* ------------------------------------------------------------- data
NULL == "NULL"

\* election_status enum
Statuses ==
  {"draft", "scheduled", "campaign", "voting_open", "paused",
   "voting_closed", "results_published"}

\* Rows of public.elections; "Ex" is an id no row has.
Elections == {"E1", "E2"}
ElectionIds == Elections \cup {"Ex"}

\* Rows of public.candidate_lists; "Lx" is an id no row has.
Lists == {"L1", "L2", "L3"}
ListIds == Lists \cup {"Lx"}

\* candidate_lists.election_id
ListElection == [l \in Lists |-> IF l = "L3" THEN "E2" ELSE "E1"]

ListsOf(e) == {l \in Lists : ListElection[l] = e}

\* auth.users
Users == {"u1", "u2", "a1", "c1"}

\* Authenticated sessions (three of voter u1, one of voter u2, two of the
\* administrator a1, one of the committee member c1), and a caller without
\* a session.
Sessions == {"s1", "s2", "s3", "s4", "adm", "ed", "com", "anon"}

\* auth.uid()
Uid(s) ==
  CASE s \in {"s1", "s2", "s3"} -> "u1"
    [] s = "s4" -> "u2"
    [] s \in {"adm", "ed"} -> "a1"
    [] s = "com" -> "c1"
    [] OTHER -> NULL

\* receipt_hash values: the tokens the generator (or a caller) can produce,
\* and the empty string
Empty == ""
Receipts == {"r1", "r2"}

\* A simulated distribution: list id -> count (jsonb object)
SimCounts == 1 .. MaxSimCount
Distributions ==
  UNION {[S -> SimCounts] : S \in (SUBSET {"L1", "L3"}) \ {{}}}
NoDist == [l \in {} |-> 0]

VARIABLES
  elections,    \* ids of the rows of public.elections (a deleted row leaves)
  status,       \* elections.status
  total_votes,  \* elections.total_votes
  votes_count,  \* candidate_lists.votes_count
  votes,        \* committed rows of public.votes
  tx,           \* per session: the request / transaction in flight
  res,          \* per session: how its last finished request ended
  ops,          \* requests started so far
  simulated,    \* history: per list, the counts added by committed simulations
                \* since the last reset of its election
  edited,       \* tables whose rows a write through the table API has changed
                \* in the columns and rows the other variables do not hold
  lists,        \* ids of the rows of public.candidate_lists, of those in Lists
  inserted,     \* the rows of public.candidate_lists that updateElection has
                \* inserted: their election, the form entry they were made
                \* of and their votes_count
  voteCheckCache, \* per session, useVoting's cache: election -> what
                \* hasAlreadyVoted answered, or "absent"
  client,       \* a subscribed client of useElections: the counters its state
                \* holds, the counters its last notification was about, and
                \* its fetchElections calls in flight
  auth_users    \* per user, the record of auth.users: whether the user has
                \* signed up, and the roles in app_metadata and user_metadata

vars ==
  <<elections, status, total_votes, votes_count, votes, tx, res, ops, simulated, edited,
    lists, inserted, voteCheckCache, client, auth_users>>

\* jwt_roles(): the roles claims of the session's token, app_metadata.roles
\* followed by user_metadata.roles of the caller's record
jwt_roles(s) ==
  IF Uid(s) = NULL THEN {}
  ELSE auth_users[Uid(s)].app_metadata \cup auth_users[Uid(s)].user_metadata

\* Variant: procedures that take every caller for an administrator.
EveryoneAdmin(s) == TRUE

is_admin(s) == "administrator" \in jwt_roles(s)

is_committee(s) == "electoral_committee" \in jwt_roles(s)

\* The roles the applications know besides the implicit student.
Roles == {"administrator", "electoral_committee"}

\* The record of a user who signed up through the application's form and was
\* granted the roles rs.
Account(rs) == [signed_up |-> TRUE, app_metadata |-> rs, user_metadata |-> {}]

\* A user who has not signed up.
NoAccount == [signed_up |-> FALSE, app_metadata |-> {}, user_metadata |-> {}]

\* auth.users at the start: the administrator a1, the committee member c1 and
\* the voters.
SeededUsers ==
  [u \in Users |->
     CASE u = "a1" -> Account({"administrator"})
       [] u = "c1" -> Account({"electoral_committee"})
       [] OTHER -> Account({})]

\* tx[s]: pc is the position of the request; op, e, l and u are the request's
\* operation and arguments (kept once it has finished); row, del and dist are
\* the uncommitted insert, the uncommitted delete and the distribution.
Idle ==
  [pc |-> "idle", op |-> "none", e |-> "Ex", l |-> "Lx", u |-> NULL,
   row |-> {}, del |-> {}, dist |-> NoDist, seen |-> {}, form |-> NoDist]

Request(op, e, l, u) == [Idle EXCEPT !.op = op, !.e = e, !.l = l, !.u = u]

\* ------------------------------------------------------------- schema

\* Variant: a receipt derived from the chosen list.
VoteRowListReceipt(e, l, u, r) ==
  [election_id |-> e, candidate_list_id |-> l, user_id |-> u,
   receipt_hash |-> IF l = "L1" THEN "r1" ELSE r]

\* A row of public.votes (id, confirmed and created_at play no part).
VoteRow(e, l, u, r) ==
  [election_id |-> e, candidate_list_id |-> l, user_id |-> u, receipt_hash |-> r]

\* make_receipt(): replace(gen_random_uuid()::text, '-', ''), the draw being g
make_receipt(g) == g

\* Variants: a votes table without the constraint, without the index.
NoVoterConstraint(row, rows) == FALSE
NoReceiptIndex(row, rows) == FALSE

\* constraint one_vote_per_user_per_election unique (user_id, election_id)
one_vote_per_user_per_election(row, rows) ==
  \E v \in rows : v.user_id = row.user_id /\ v.election_id = row.election_id

\* unique index votes_receipt_hash_idx
votes_receipt_hash_idx(row, rows) ==
  \E v \in rows : v.receipt_hash = row.receipt_hash

UniqueConflict(row, rows) ==
  one_vote_per_user_per_election(row, rows) \/ votes_receipt_hash_idx(row, rows)

\* Variant: candidate_list_id references candidate_lists (id) alone.
ListExistsOnly(row) ==
  row.candidate_list_id \in lists /\ ListElection[row.candidate_list_id] \in elections

\* votes.election_id references elections(id); votes.user_id references
\* auth.users(id); (candidate_list_id, election_id) references
\* candidate_lists (id, election_id)
votes_candidate_list_matches_election(row) ==
  /\ row.candidate_list_id \in lists
  /\ ListElection[row.candidate_list_id] \in elections
  /\ ListElection[row.candidate_list_id] = row.election_id

ForeignKeysHold(row) ==
  /\ row.election_id \in elections
  /\ row.user_id \in Users
  /\ votes_candidate_list_matches_election(row)

\* Variants: the policy without the status condition, and without the
\* condition on user_id.
InsertPolicyAnyStatus(s, row) ==
  /\ Uid(s) # NULL
  /\ row.user_id = Uid(s)
  /\ row.election_id \in elections
  /\ row.candidate_list_id \in lists

InsertPolicyAnyUser(s, row) ==
  /\ Uid(s) # NULL
  /\ \E e \in elections : e = row.election_id /\ status[e] = "voting_open"
  /\ row.candidate_list_id \in lists

\* policy votes_insert ... with check (...).  In the second subquery the
\* unqualified election_id is a column of candidate_lists cl, the innermost
\* scope, so the comparison is cl.election_id = cl.election_id.
votes_insert(s, row) ==
  /\ Uid(s) # NULL
  /\ row.user_id = Uid(s)
  /\ \E e \in elections : e = row.election_id /\ status[e] = "voting_open"
  /\ \E cl \in lists :
       /\ ListElection[cl] \in elections
       /\ cl = row.candidate_list_id
       /\ ListElection[cl] = ListElection[cl]

\* Variant: a votes table every caller may read.
VotesSelectAll(s, row) == TRUE

\* policy votes_select: for select using (user_id = auth.uid() or is_admin()
\* or is_committee()); a comparison with a null auth.uid() is not true.
votes_select(s, row) ==
  \/ Uid(s) # NULL /\ row.user_id = Uid(s)
  \/ is_admin(s)
  \/ is_committee(s)

\* ------------------------------------------------------------- locks

InFlight == {"inserted", "updE", "sim_lists", "reset_del", "reset_lists"}

\* Rows other transactions have inserted and not yet committed.
PendingRows(s) == UNION {tx[t].row : t \in Sessions \ {s}}

\* Committed rows other transactions have deleted and not yet committed.
PendingDeleted(s) == UNION {tx[t].del : t \in Sessions \ {s}}

\* The elections row e is locked by session t (it has updated it).
LocksElection(t, e) == tx[t].pc = "updE" /\ tx[t].e = e

\* The candidate_lists row l is locked by session t.
LocksList(t, l) == tx[t].pc \in {"sim_lists", "reset_lists"} /\ ListElection[l] = tx[t].e

ElectionFree(s, e) == \A t \in Sessions \ {s} : ~LocksElection(t, e)
ListFree(s, l) == \A t \in Sessions \ {s} : ~LocksList(t, l)


\* ------------------------------------------------------------- helpers

RECURSIVE SumOver(_, _)
\* Sum of f[x] over the finite set S.
SumOver(f, S) ==
  IF S = {} THEN 0
  ELSE LET x == CHOOSE y \in S : TRUE IN f[x] + SumOver(f, S \ {x})

BallotsOfElection(e) == {v \in votes : v.election_id = e}
BallotsOfList(l) == {v \in votes : v.candidate_list_id = l}

Start(s) == tx[s].pc = "idle" /\ ops < MaxOps /\ ops' = ops + 1

\* The request of session s, `req`, ends with `code`.
Finish(s, req, code) ==
  /\ tx' = [tx EXCEPT ![s] = [req EXCEPT !.pc = "idle", !.row = {}, !.del = {}, !.dist = NoDist]]
  /\ res' = [res EXCEPT ![s] = code]

UnchangedDb ==
  UNCHANGED <<auth_users, elections, status, total_votes, votes_count, votes, simulated, edited,
              lists, inserted, voteCheckCache, client>>

\* ------------------------------------------------------------- INSERT INTO votes

\* Committed rows no transaction in flight is deleting, and the rows whose
\* fate is open: inserted or deleted by a transaction still in flight.
Settled(s) == votes \ PendingDeleted(s)
Unsettled(s) == PendingRows(s) \cup (votes \cap PendingDeleted(s))

\* votes_after_insert, first part: a missing receipt is generated and stored.
WithReceipt(row, g) ==
  IF row.receipt_hash = Empty
  THEN [row EXCEPT !.receipt_hash = make_receipt(g)]
  ELSE row

\* The error of the INSERT statement of session s for `row`, against the
\* rows `rows`: the policy's WITH CHECK, the unique indexes at the insert,
\* the foreign keys, then the trigger's update of the receipt.
InsertError(s, row, g, rows) ==
  IF ~votes_insert(s, row) THEN "42501"
  ELSE IF UniqueConflict(row, rows) THEN "23505"
  ELSE IF ~ForeignKeysHold(row) THEN "23503"
  ELSE IF votes_receipt_hash_idx(WithReceipt(row, g), rows) THEN "23505"
  ELSE "ok"

\* Variant: an insert that decides on the committed rows without waiting.
DecideAtOnce(s, row, g) == TRUE

\* The statement waits while a row that conflicts with it is unsettled.
CanDecide(s, row, g) ==
  \/ ~votes_insert(s, row)
  \/ UniqueConflict(row, Settled(s))
  \/ /\ ~UniqueConflict(row, Unsettled(s))
     /\ \/ ~ForeignKeysHold(row)
        \/ votes_receipt_hash_idx(WithReceipt(row, g), Settled(s))
        \/ ~votes_receipt_hash_idx(WithReceipt(row, g), Unsettled(s))

InsertInto(s, op, row, g) ==
  /\ CanDecide(s, row, g)
  /\ LET err == InsertError(s, row, g, Settled(s))
         req == Request(op, row.election_id, row.candidate_list_id, row.user_id)
     IN IF err = "ok"
        THEN /\ tx' = [tx EXCEPT ![s] =
                         [req EXCEPT !.pc = "inserted", !.row = {WithReceipt(row, g)}]]
             /\ res' = [res EXCEPT ![s] = "none"]
        ELSE Finish(s, req, err)
  /\ UnchangedDb

\* hasAlreadyVoted, first part: the cached answer for `${electionId}-${userId}`.
CachedVoteStatus(cache, s, e) == cache[s][e]

\* hasAlreadyVoted: the cached answer if there is one, else select id from
\* votes where election_id = e and user_id = userId, as "true" / "false".
hasAlreadyVoted(s, e) ==
  IF CachedVoteStatus(voteCheckCache, s, e) # "absent"
  THEN CachedVoteStatus(voteCheckCache, s, e)
  ELSE IF \E v \in votes : v.election_id = e /\ v.user_id = Uid(s) THEN "true" ELSE "false"

\* setVoteCheckCache(prev => new Map(prev).set(cacheKey, hasVoted))
WithVoteStatus(cache, s, e, answer) == [cache EXCEPT ![s][e] = answer]

\* clearVoteCache: the key leaves the cache.
clearVoteCache(cache, s, e) == [cache EXCEPT ![s][e] = "absent"]

\* The voting page loads: hasAlreadyVoted for the signed-in voter.
PageLoad(s, e) ==
  /\ Uid(s) # NULL
  /\ tx[s].pc = "idle"
  /\ voteCheckCache[s][e] = "absent"
  /\ voteCheckCache' = WithVoteStatus(voteCheckCache, s, e, hasAlreadyVoted(s, e))
  /\ UNCHANGED <<tx, res, ops>>
  /\ UNCHANGED <<auth_users, elections, status, total_votes, votes_count, votes, simulated, edited,
                  lists, inserted, client>>

\* castVote's pre-checks: checkEligibility, then hasAlreadyVoted.
ClientPrecheck(s, e, l) ==
  /\ Uid(s) # NULL
  /\ Start(s)
  /\ LET req == Request("cast", e, l, Uid(s)) IN
       IF ~(e \in elections /\ status[e] = "voting_open")
       THEN /\ Finish(s, req, "not_eligible")
            /\ UNCHANGED voteCheckCache
       ELSE /\ voteCheckCache' = WithVoteStatus(voteCheckCache, s, e, hasAlreadyVoted(s, e))
            /\ IF hasAlreadyVoted(s, e) = "true"
               THEN Finish(s, req, "has_voted")
               ELSE /\ tx' = [tx EXCEPT ![s] = [req EXCEPT !.pc = "prechecked"]]
                    /\ res' = [res EXCEPT ![s] = "none"]
  /\ UNCHANGED <<auth_users, elections, status, total_votes, votes_count, votes, simulated, edited,
                  lists, inserted, client>>

\* castVote's return value for the outcome `code` of its pre-checks or of the
\* rpc: the new row's id, or null.
castVoteReturn(code) == IF code = "ok" THEN "id" ELSE NULL

\* castVote's toast for the outcome `code`.
castVoteToast(code) ==
  CASE code = "ok" -> "¡Voto registrado exitosamente!"
    [] code = "not_eligible" -> "Esta elección no está disponible para votación"
    [] code \in {"has_voted", "23505"} -> "Ya has votado en esta elección"
    [] OTHER -> "Error al emitir el voto"

\* cast_vote(p_election, p_list), called by castVote after its pre-checks or
\* directly: the insert with auth.uid() and make_receipt().
CastVote(s, e, l, g) ==
  /\ \/ Start(s)
     \/ tx[s].pc = "prechecked" /\ e = tx[s].e /\ l = tx[s].l /\ ops' = ops
  /\ InsertInto(s, "cast", VoteRow(e, l, Uid(s), make_receipt(g)), g)

\* An insert into votes through the table API, every column the caller's.
DirectInsert(s, e, l, u, r, g) ==
  /\ Start(s)
  /\ InsertInto(s, "insert", VoteRow(e, l, u, r), g)

\* votes_after_insert: update elections set total_votes = total_votes + 1
VotesAfterInsertElection(s) ==
  /\ tx[s].pc = "inserted"
  /\ ElectionFree(s, tx[s].e)
  /\ tx' = [tx EXCEPT ![s].pc = "updE"]
  /\ UNCHANGED <<res, ops>>
  /\ UnchangedDb

\* Variants: a trigger that leaves a counter as it is.
SkipElectionTally(tv, row) == tv
SkipListTally(vc, row) == vc

\* Variant: a trigger that writes the count it found when the voting began
\* plus one, whatever has been committed since.
StaleListTally(vc, row) == [vc EXCEPT ![row.candidate_list_id] = 1]

TallyElection(tv, row) == [tv EXCEPT ![row.election_id] = @ + 1]
TallyList(vc, row) == [vc EXCEPT ![row.candidate_list_id] = @ + 1]

\* votes_after_insert: update candidate_lists set votes_count = votes_count + 1,
\* after which the statement ends and the transaction commits.
VotesAfterInsertList(s) ==
  /\ tx[s].pc = "updE"
  /\ ListFree(s, tx[s].l)
  /\ LET row == CHOOSE v \in tx[s].row : TRUE IN
       /\ votes' = votes \cup {row}
       /\ total_votes' = TallyElection(total_votes, row)
       /\ votes_count' = TallyList(votes_count, row)
  /\ voteCheckCache' =
       IF tx[s].op = "cast" THEN clearVoteCache(voteCheckCache, s, tx[s].e)
       ELSE voteCheckCache
  /\ Finish(s, tx[s], "ok")
  /\ UNCHANGED <<auth_users, elections, status, ops, simulated, edited, lists, inserted, client>>

\* A transaction in flight ends without committing: statement timeout, lost
\* connection, or chosen as the victim of a deadlock.
Abort(s) ==
  /\ tx[s].pc \in InFlight
  /\ Finish(s, tx[s], "aborted")
  /\ UNCHANGED ops
  /\ UnchangedDb

\* ------------------------------------------------------------- admin RPCs

\* Variant: a simulation that adds nothing to the lists.
NoDistCount(dist, l) == 0

\* coalesce((p_distribution ->> cl.id::text)::int, 0)
DistCount(dist, l) == IF l \in DOMAIN dist THEN dist[l] ELSE 0

\* Variant: a simulation that adds nothing to the election's total.
NoSimTotal(dist) == 0

\* v_total: the sum of the distribution's counts
v_total(dist) == SumOver(dist, DOMAIN dist)

\* Variant: a simulation that does not validate the distribution's keys.
ListsUnchecked(e, dist) == TRUE

\* admin_apply_simulation's loop: every key is a list of the election.
ListsBelong(e, dist) == \A k \in DOMAIN dist : k \in lists /\ ListElection[k] = e

\* admin_apply_simulation: the checks, then the update of the lists' rows.
AdminApplySimulation(s, e, dist) ==
  /\ Uid(s) # NULL
  /\ Start(s)
  /\ LET req == Request("simulate", e, "Lx", NULL) IN
       IF ~is_admin(s) THEN Finish(s, req, "42501")
       ELSE IF e \notin elections THEN Finish(s, req, "22023")
       ELSE IF ~ListsBelong(e, dist) THEN Finish(s, req, "23503")
       ELSE /\ \A l \in ListsOf(e) : ListFree(s, l)
            /\ tx' = [tx EXCEPT ![s] = [req EXCEPT !.pc = "sim_lists", !.dist = dist]]
            /\ res' = [res EXCEPT ![s] = "none"]
  /\ UnchangedDb

\* admin_apply_simulation: the update of the election's row, and the commit.
SimulationCommit(s) ==
  /\ tx[s].pc = "sim_lists"
  /\ ElectionFree(s, tx[s].e)
  /\ LET e == tx[s].e
         dist == tx[s].dist
     IN /\ votes_count' = [l \in Lists |->
             IF ListElection[l] = e THEN votes_count[l] + DistCount(dist, l)
             ELSE votes_count[l]]
        /\ total_votes' = [total_votes EXCEPT ![e] = @ + v_total(dist)]
        /\ simulated' = [l \in Lists |->
             IF ListElection[l] = e THEN simulated[l] + DistCount(dist, l)
             ELSE simulated[l]]
  /\ Finish(s, tx[s], "ok")
  /\ UNCHANGED <<auth_users, elections, status, votes, ops, edited, lists, inserted, voteCheckCache, client>>

\* admin_reset_election_votes: the privilege check and the delete.
AdminResetElectionVotes(s, e) ==
  /\ Uid(s) # NULL
  /\ Start(s)
  /\ LET req == Request("reset", e, "Lx", NULL) IN
       IF ~is_admin(s) THEN Finish(s, req, "42501")
       ELSE /\ tx' = [tx EXCEPT ![s] =
                        [req EXCEPT !.pc = "reset_del",
                                    !.del = {v \in votes : v.election_id = e}]]
            /\ res' = [res EXCEPT ![s] = "none"]
  /\ UnchangedDb

\* admin_reset_election_votes: update candidate_lists set votes_count = 0
ResetLists(s) ==
  /\ tx[s].pc = "reset_del"
  /\ \A l \in ListsOf(tx[s].e) : ListFree(s, l)
  /\ tx' = [tx EXCEPT ![s].pc = "reset_lists"]
  /\ UNCHANGED <<res, ops>>
  /\ UnchangedDb

\* admin_reset_election_votes: update elections set total_votes = 0, and the commit.
ResetCommit(s) ==
  /\ tx[s].pc = "reset_lists"
  /\ ElectionFree(s, tx[s].e)
  /\ LET e == tx[s].e IN
       /\ votes' = votes \ tx[s].del
       /\ votes_count' = [l \in Lists |-> IF ListElection[l] = e THEN 0 ELSE votes_count[l]]
       /\ total_votes' = [x \in Elections |-> IF x = e THEN 0 ELSE total_votes[x]]
       /\ simulated' = [l \in Lists |-> IF ListElection[l] = e THEN 0 ELSE simulated[l]]
       /\ inserted' = {IF r.election_id = e THEN [r EXCEPT !.votes_count = 0] ELSE r :
                         r \in inserted}
  /\ Finish(s, tx[s], "ok")
  /\ UNCHANGED <<auth_users, elections, status, ops, edited, lists, voteCheckCache, client>>

\* changeElectionStatus: update elections set status = newStatus where id = e,
\* under the policy elections_write (is_admin()); a caller who is no
\* administrator updates no row.
ChangeElectionStatus(s, e, newStatus) ==
  /\ Uid(s) # NULL
  /\ Start(s)
  /\ ElectionFree(s, e)
  /\ status' = IF is_admin(s) /\ e \in elections THEN [status EXCEPT ![e] = newStatus] ELSE status
  /\ Finish(s, Request("status", e, "Lx", NULL),
            IF is_admin(s) /\ e \in elections THEN "ok" ELSE "no_rows")
  /\ UNCHANGED <<auth_users, elections, total_votes, votes_count, votes, simulated, edited, lists, inserted, voteCheckCache, client>>

\* deleteElection: delete from elections where id = e, under the policy
\* elections_write (a caller who is no administrator deletes no row).  The
\* delete cascades to the election's candidate_lists and votes; it waits for
\* the transactions in flight that hold rows of e.
DeleteElection(s, e) ==
  /\ Start(s)
  /\ \A t \in Sessions \ {s} : tx[t].pc \in InFlight => tx[t].e # e
  /\ IF is_admin(s) /\ e \in elections
     THEN /\ elections' = elections \ {e}
          /\ votes' = votes \ BallotsOfElection(e)
          /\ total_votes' = [total_votes EXCEPT ![e] = 0]
          /\ votes_count' = [l \in Lists |-> IF ListElection[l] = e THEN 0 ELSE votes_count[l]]
          /\ simulated' = [l \in Lists |-> IF ListElection[l] = e THEN 0 ELSE simulated[l]]
          /\ lists' = lists \ ListsOf(e)
          /\ inserted' = {r \in inserted : r.election_id # e}
     ELSE UNCHANGED <<elections, votes, total_votes, votes_count, simulated, lists, inserted, voteCheckCache, client>>
  /\ Finish(s, Request("delete", e, "Lx", NULL),
            IF is_admin(s) /\ e \in elections THEN "ok" ELSE "no_rows")
  /\ UNCHANGED <<auth_users, status, edited, voteCheckCache, client>>

\* select * from votes through the table API: the committed rows the policy
\* votes_select lets the caller see.
SelectVotes(s) ==
  /\ Start(s)
  /\ tx' = [tx EXCEPT ![s] =
              [Request("select", "Ex", "Lx", Uid(s)) EXCEPT
                 !.seen = {v \in votes : votes_select(s, v)}]]
  /\ res' = [res EXCEPT ![s] = "ok"]
  /\ UnchangedDb

\* Tables with a write policy `for all using (is_admin()) with check (is_admin())`.
Tables == {"elections", "candidate_lists", "candidates"}

\* createElection / updateElection: an insert of rows into `table` through
\* the table API; the policy's WITH CHECK refuses the rows of a caller who
\* is no administrator.
TableInsert(s, table) ==
  /\ Start(s)
  /\ edited' = IF is_admin(s) THEN edited \cup {table} ELSE edited
  /\ Finish(s, Request("write", "Ex", "Lx", NULL), IF is_admin(s) THEN "ok" ELSE "42501")
  /\ UNCHANGED <<auth_users, elections, status, total_votes, votes_count, votes, simulated, lists, inserted, voteCheckCache, client>>

\* updateElection without candidateLists: update elections set title = ...,
\* where id = e; under the policy's USING a caller who is no administrator
\* updates no row.
UpdateElectionRow(s, e) ==
  /\ Start(s)
  /\ ElectionFree(s, e)
  /\ edited' = IF is_admin(s) /\ e \in elections THEN edited \cup {"elections"} ELSE edited
  /\ Finish(s, Request("write", e, "Lx", NULL),
            IF is_admin(s) /\ e \in elections THEN "ok" ELSE "no_rows")
  /\ UNCHANGED <<auth_users, elections, status, total_votes, votes_count, votes, simulated, lists, inserted, voteCheckCache, client>>

\* canEdit of the edit page: the statuses in which the form's fields are
\* enabled.
canEdit(st) == st \in {"draft", "scheduled", "campaign", "paused"}

\* The rows of candidate_lists stored for election e, and the sum of their
\* votes_count.
InsertedOf(ins, e) == {r \in ins : r.election_id = e}

RECURSIVE SumRows(_)
SumRows(rows) ==
  IF rows = {} THEN 0
  ELSE LET r == CHOOSE x \in rows : TRUE IN r.votes_count + SumRows(rows \ {r})

StoredSum(e, ls, ins, vc) ==
  SumOver(vc, {l \in ls : ListElection[l] = e}) + SumRows(InsertedOf(ins, e))

\* The edit page loads the election with getElectionById and fills the form
\* with its lists, each with the votes_count read now.  The administrator
\* opens the form of an election whose fields are enabled and whose lists
\* no earlier save has replaced.
LoadElection(s, e) ==
  /\ Start(s)
  /\ is_admin(s)
  /\ e \in elections /\ canEdit(status[e])
  /\ InsertedOf(inserted, e) = {}
  /\ tx' = [tx EXCEPT ![s] =
              [Request("edit", e, "Lx", Uid(s)) EXCEPT
                 !.pc = "form",
                 !.form = [l \in {k \in lists : ListElection[k] = e} |-> votes_count[l]]]]
  /\ res' = [res EXCEPT ![s] = "none"]
  /\ UnchangedDb

\* onSubmit -> updateElection with candidateLists, first requests: the update
\* of the election's row, then delete from candidate_lists where election_id
\* = e.  The delete fails as a whole (23503, on delete restrict) when a
\* ballot references one of the lists; updateElection logs the error and
\* goes on.  Both requests wait for the transactions in flight on e.
UpdateElectionDelete(s) ==
  /\ tx[s].pc = "form"
  /\ \A t \in Sessions \ {s} : tx[t].pc \in InFlight => tx[t].e # tx[s].e
  /\ LET e == tx[s].e IN
       IF is_admin(s) /\ e \in elections /\ BallotsOfElection(e) = {}
       THEN /\ lists' = lists \ ListsOf(e)
            /\ inserted' = {r \in inserted : r.election_id # e}
            /\ votes_count' = [l \in Lists |-> IF ListElection[l] = e THEN 0 ELSE votes_count[l]]
            /\ simulated' = [l \in Lists |-> IF ListElection[l] = e THEN 0 ELSE simulated[l]]
            /\ edited' = edited \cup Tables
       ELSE /\ edited' = IF is_admin(s) /\ e \in elections
                         THEN edited \cup {"elections"} ELSE edited
            /\ UNCHANGED <<lists, inserted, votes_count, simulated>>
  /\ tx' = [tx EXCEPT ![s].pc = "lists_deleted"]
  /\ UNCHANGED <<auth_users, elections, status, total_votes, votes, res, ops, voteCheckCache, client>>

\* updateElection, last requests: the insert of one row per list of the
\* form with votes_count: list.votes || 0, then the insert of the candidates.
UpdateElectionInsert(s) ==
  /\ tx[s].pc = "lists_deleted"
  /\ LET e == tx[s].e
         form == tx[s].form
     IN IF ~is_admin(s)
        THEN /\ Finish(s, tx[s], "42501")
             /\ UNCHANGED <<inserted, edited>>
        ELSE IF e \notin elections
        THEN /\ Finish(s, tx[s], "23503")
             /\ UNCHANGED <<inserted, edited>>
        ELSE /\ inserted' = inserted \cup
                   {[election_id |-> e, of |-> l, votes_count |-> form[l]] : l \in DOMAIN form}
             /\ edited' = edited \cup {"candidate_lists", "candidates"}
             /\ Finish(s, tx[s], "ok")
  /\ UNCHANGED <<auth_users, elections, status, total_votes, votes_count, votes, ops, simulated, lists,
                  voteCheckCache, client>>

\* ------------------------------------------------------------- useElections

\* fetchElections calls one client has in flight at most.
Fetches == {1, 2}

\* The client once its initial load has returned the counters `tv`.
Loaded(tv) ==
  [view |-> tv, notified |-> tv,
   fetch |-> [i \in Fetches |-> [st |-> "free", snap |-> tv]]]

\* A postgres_changes notification reaches the subscription: it is about the
\* commits since the last one, and its handler calls fetchElections.
Notify(i) ==
  /\ client.notified # total_votes
  /\ client.fetch[i].st = "free"
  /\ client' = [client EXCEPT !.notified = total_votes, !.fetch[i].st = "sent"]
  /\ UNCHANGED <<tx, res, ops>>
  /\ UNCHANGED <<auth_users, elections, status, total_votes, votes_count, votes, simulated, edited,
                  lists, inserted, voteCheckCache>>

\* fetchElections: the select on elections runs.
FetchRead(i) ==
  /\ client.fetch[i].st = "sent"
  /\ client' = [client EXCEPT !.fetch[i] = [st |-> "read", snap |-> total_votes]]
  /\ UNCHANGED <<tx, res, ops>>
  /\ UNCHANGED <<auth_users, elections, status, total_votes, votes_count, votes, simulated, edited,
                  lists, inserted, voteCheckCache>>

\* fetchElections: the response arrives, setElections(mappedElections).
FetchReturn(i) ==
  /\ client.fetch[i].st = "read"
  /\ client' = [client EXCEPT !.view = client.fetch[i].snap,
                              !.fetch[i] = [st |-> "free", snap |-> client.fetch[i].snap]]
  /\ UNCHANGED <<tx, res, ops>>
  /\ UNCHANGED <<auth_users, elections, status, total_votes, votes_count, votes, simulated, edited,
                  lists, inserted, voteCheckCache>>

\* ------------------------------------------------------------- specification

Init ==
  /\ elections = Elections
  /\ status = [e \in Elections |-> "voting_open"]
  /\ total_votes = [e \in Elections |-> 0]
  /\ votes_count = [l \in Lists |-> 0]
  /\ votes = {}
  /\ tx = [s \in Sessions |-> Idle]
  /\ res = [s \in Sessions |-> "none"]
  /\ ops = 0
  /\ simulated = [l \in Lists |-> 0]
  /\ edited = {}
  /\ lists = Lists
  /\ inserted = {}
  /\ voteCheckCache = [s \in Sessions |-> [e \in Elections |-> "absent"]]
  /\ client = Loaded([e \in Elections |-> 0])
  /\ auth_users = SeededUsers

\* Who issues which request.  Session s1 of voter u1 runs castVote (the
\* pre-checks, then the RPC) or calls cast_vote with any arguments; s2, a
\* second session of u1, calls cast_vote for election E1; the caller without
\* a session tries one cast.  Session s4 of voter u2 writes to the table
\* directly, also in the name of u1, and tries the administrator's
\* operations; adm is the administrator.
CastInputs(s) ==
  CASE s = "s1" -> Elections \X ListIds \X Receipts
    [] s = "s2" -> {"E1"} \X {"L1", "L2"} \X Receipts
    [] OTHER -> {<<"E1", "L1", "r1">>}

InsertInputs ==
  {<<e, l, "u2", r>> : e \in Elections, l \in {"L1", "L3"}, r \in Receipts \cup {Empty}}
    \cup {<<"E1", "L1", "u1", "r1">>}

AdminInputs(s, all) == IF s = "adm" THEN all ELSE {"E1"}

InsertSteps ==
  \/ \E s \in Sessions : VotesAfterInsertElection(s)
  \/ \E s \in Sessions : VotesAfterInsertList(s)

AdminSteps ==
  \/ \E s \in Sessions : SimulationCommit(s)
  \/ \E s \in Sessions : ResetLists(s)
  \/ \E s \in Sessions : ResetCommit(s)

Next ==
  \/ \E l \in Lists : ClientPrecheck("s1", ListElection[l], l)
  \/ \E s \in {"s1", "s2", "anon"} : \E i \in CastInputs(s) : CastVote(s, i[1], i[2], i[3])
  \/ \E i \in InsertInputs, g \in Receipts : DirectInsert("s4", i[1], i[2], i[3], i[4], g)
  \/ InsertSteps
  \/ \E s \in Sessions : Abort(s)
  \/ \E s \in {"adm", "s4"} : \E e \in AdminInputs(s, ElectionIds), dist \in Distributions :
        AdminApplySimulation(s, e, dist)
  \/ \E s \in {"adm", "s4"} : \E e \in AdminInputs(s, Elections) : AdminResetElectionVotes(s, e)
  \/ \E s \in {"adm", "s4"} : \E e \in AdminInputs(s, Elections), st \in Statuses :
        ChangeElectionStatus(s, e, st)
  \/ AdminSteps

Spec == Init /\ [][Next]_vars

\* Casts and simulated distributions only: no reset of an election.
NextCastSim ==
  \/ \E l \in Lists : ClientPrecheck("s1", ListElection[l], l)
  \/ \E s \in {"s1", "s2", "anon"} : \E i \in CastInputs(s) : CastVote(s, i[1], i[2], i[3])
  \/ \E i \in InsertInputs, g \in Receipts : DirectInsert("s4", i[1], i[2], i[3], i[4], g)
  \/ InsertSteps
  \/ \E s \in Sessions : Abort(s)
  \/ \E s \in {"adm", "s4"} : \E e \in AdminInputs(s, ElectionIds), dist \in Distributions :
        AdminApplySimulation(s, e, dist)
  \/ \E s \in Sessions : SimulationCommit(s)
  \/ \E s \in {"adm", "s4"} : \E e \in AdminInputs(s, Elections), st \in Statuses :
        ChangeElectionStatus(s, e, st)

SpecCastSim == Init /\ [][NextCastSim]_vars

\* The race: the sessions s1, s2, s3 of voter u1, and s4 of voter u2, each
\* send one cast_vote request for the open election E1, naming a list of E1.
\* gen_random_uuid() gives a token no other voter's row carries.
Racers == {"s1", "s2", "s3", "s4"}

FreshReceipts(s) ==
  Receipts \ {v.receipt_hash : v \in {w \in votes \cup PendingRows(s) : w.user_id # Uid(s)}}

RaceCast(s, l, g) ==
  /\ tx[s].op = "none"
  /\ g \in FreshReceipts(s)
  /\ CastVote(s, "E1", l, g)

NextRace ==
  \/ \E s \in Racers, l \in ListsOf("E1"), g \in Receipts : RaceCast(s, l, g)
  \/ InsertSteps
  \/ \E s \in Sessions : Abort(s)

SpecRace == Init /\ [][NextRace]_vars

\* Readers of the votes table, in an election where u2 has voted.
BallotU2 == VoteRow("E1", "L2", "u2", "r2")

InitRead ==
  /\ elections = Elections
  /\ status = [e \in Elections |-> "voting_open"]
  /\ total_votes = [e \in Elections |-> IF e = "E1" THEN 1 ELSE 0]
  /\ votes_count = [l \in Lists |-> IF l = "L2" THEN 1 ELSE 0]
  /\ votes = {BallotU2}
  /\ tx = [s \in Sessions |-> Idle]
  /\ res = [s \in Sessions |-> "none"]
  /\ ops = 0
  /\ simulated = [l \in Lists |-> 0]
  /\ edited = {}
  /\ lists = Lists
  /\ inserted = {}
  /\ voteCheckCache = [s \in Sessions |-> [e \in Elections |-> "absent"]]
  /\ client = Loaded([e \in Elections |-> IF e = "E1" THEN 1 ELSE 0])
  /\ auth_users = SeededUsers

NextRead ==
  \/ \E s \in {"s1", "s4", "adm", "com", "anon"} : SelectVotes(s)
  \/ \E s \in {"s1", "s2"} : \E i \in CastInputs(s) : CastVote(s, i[1], i[2], i[3])
  \/ InsertSteps
  \/ \E s \in Sessions : Abort(s)

SpecRead == InitRead /\ [][NextRead]_vars

\* The edit page: election E1 is paused and holds the ballot of u2,
\* election E2 is a draft; the administrator edits in one session and
\* changes statuses in another, voter u1 casts.
InitEdit ==
  /\ elections = Elections
  /\ status = [e \in Elections |-> IF e = "E1" THEN "paused" ELSE "draft"]
  /\ total_votes = [e \in Elections |-> IF e = "E1" THEN 1 ELSE 0]
  /\ votes_count = [l \in Lists |-> IF l = "L2" THEN 1 ELSE 0]
  /\ votes = {BallotU2}
  /\ tx = [s \in Sessions |-> Idle]
  /\ res = [s \in Sessions |-> "none"]
  /\ ops = 0
  /\ simulated = [l \in Lists |-> 0]
  /\ edited = {}
  /\ lists = Lists
  /\ inserted = {}
  /\ voteCheckCache = [s \in Sessions |-> [e \in Elections |-> "absent"]]
  /\ client = Loaded([e \in Elections |-> IF e = "E1" THEN 1 ELSE 0])
  /\ auth_users = SeededUsers

NextEdit ==
  \/ \E e \in Elections : LoadElection("ed", e)
  \/ UpdateElectionDelete("ed")
  \/ UpdateElectionInsert("ed")
  \/ \E e \in Elections, st \in {"voting_open", "paused", "voting_closed"} :
        ChangeElectionStatus("adm", e, st)
  \/ \E l \in Lists : CastVote("s1", ListElection[l], l, "r1")
  \/ InsertSteps
  \/ \E s \in Sessions : Abort(s)

SpecEdit == InitEdit /\ [][NextEdit]_vars

\* The voting page: voter u1 has it open in session s1 and casts through
\* castVote; the same voter casts from session s2.
NextRetry ==
  \/ \E e \in Elections : PageLoad("s1", e)
  \/ \E l \in Lists : ClientPrecheck("s1", ListElection[l], l)
  \/ \E g \in Receipts : CastVote("s1", tx["s1"].e, tx["s1"].l, g) /\ tx["s1"].pc = "prechecked"
  \/ \E l \in Lists, g \in Receipts : CastVote("s2", ListElection[l], l, g) /\ tx["s2"].pc = "idle"
  \/ InsertSteps
  \/ \E s \in Sessions : Abort(s)

SpecRetry == Init /\ [][NextRetry]_vars

\* A subscribed client while two voters cast: every commit is notified,
\* every notification is delivered and every fetch is answered.
Voting ==
  \/ \E l \in Lists : CastVote("s1", ListElection[l], l, "r1") /\ tx["s1"].pc = "idle"
  \/ \E l \in Lists : CastVote("s4", ListElection[l], l, "r2") /\ tx["s4"].pc = "idle"
  \/ InsertSteps

ClientSteps == \E i \in Fetches : Notify(i) \/ FetchRead(i) \/ FetchReturn(i)

NextClient == Voting \/ ClientSteps

SpecClient ==
  /\ Init /\ [][NextClient]_vars
  /\ WF_vars(InsertSteps)
  /\ WF_vars(\E i \in Fetches : Notify(i))
  /\ \A i \in Fetches : WF_vars(FetchRead(i)) /\ WF_vars(FetchReturn(i))

\* Casts racing with resets, nothing else: no simulation, no abort.
NextResetRace ==
  \/ \E s \in {"s1", "s2"} : \E i \in CastInputs(s) : CastVote(s, i[1], i[2], i[3])
  \/ InsertSteps
  \/ \E e \in Elections : AdminResetElectionVotes("adm", e)
  \/ \E s \in Sessions : ResetLists(s)
  \/ \E s \in Sessions : ResetCommit(s)

SpecResetRace == Init /\ [][NextResetRace]_vars

\* Every request of the platform, the deletion of an election included.
NextAll ==
  \/ Next
  \/ \E s \in {"adm", "s4", "anon"} : \E e \in AdminInputs(s, Elections) : DeleteElection(s, e)
  \/ \E s \in {"adm", "s4"} : \E table \in Tables : TableInsert(s, table)
  \/ \E s \in {"adm", "s4"} : \E e \in AdminInputs(s, Elections) : UpdateElectionRow(s, e)

SpecAll == Init /\ [][NextAll]_vars

TypeOK ==
  /\ status \in [Elections -> Statuses]
  /\ votes \subseteq [election_id : Elections, candidate_list_id : Lists,
                      user_id : Users, receipt_hash : Receipts]
  /\ ops \in 0 .. MaxOps

\* ------------------------------------------------------------- properties

InsertOps == {"cast", "insert"}

\* C1: in every reachable state, whatever the interleaving of cast_vote
\* requests and direct inserts and whether or not the client's pre-checks
\* ran, no two distinct committed ballots have the same voter and election.
C1_OneBallotPerVoterPerElection ==
  \A v, w \in votes :
    (v.user_id = w.user_id /\ v.election_id = w.election_id) => v = w

\* A second request of a voter for an election in which the voter's ballot
\* is stored was refused as a duplicate.
C1_DuplicateRefused ==
  \E s \in Sessions :
    /\ tx[s].pc = "idle" /\ tx[s].op \in InsertOps /\ res[s] = "23505"
    /\ \E v \in votes : v.user_id = tx[s].u /\ v.election_id = tx[s].e

\* The racing requests of voter u that have ended other than by an abort.
Completed(u) ==
  {s \in Racers : Uid(s) = u /\ tx[s].op = "cast" /\ tx[s].pc = "idle" /\ res[s] # "aborted"}

\* C2: when the same voter's concurrent cast_vote requests for the open
\* election E1 race, then as soon as one of them has completed, exactly one
\* completed request has succeeded, every other completed request has failed
\* with 23505, the voter has one ballot, and total_votes of E1 has grown by
\* exactly one per voter who succeeded.
C2_ExactlyOneRacerSucceeds ==
  /\ \A u \in Users :
       Completed(u) # {} =>
         /\ Cardinality({s \in Completed(u) : res[s] = "ok"}) = 1
         /\ \A s \in Completed(u) : res[s] \in {"ok", "23505"}
         /\ Cardinality({v \in votes : v.user_id = u /\ v.election_id = "E1"}) = 1
  /\ total_votes["E1"] =
       Cardinality({u \in Users : \E s \in Completed(u) : res[s] = "ok"})

\* Two requests of one voter have completed: one succeeded, one got 23505.
C2_RaceDecided ==
  \E s, t \in Racers :
    /\ s # t /\ Uid(s) = Uid(t)
    /\ tx[s].op = "cast" /\ res[s] = "ok"
    /\ tx[t].op = "cast" /\ tx[t].pc = "idle" /\ res[t] = "23505"

\* The step commits an administrative procedure.
AdminCommitStep ==
  \E s \in Sessions :
    /\ tx[s].pc \in {"sim_lists", "reset_lists"}
    /\ tx'[s].pc = "idle" /\ res'[s] = "ok"

\* The step commits the insert of session s: its row and both increments.
BallotCommitStep(s) ==
  /\ tx[s].pc = "updE" /\ tx'[s].pc = "idle" /\ res'[s] = "ok"
  /\ \E r \in tx[s].row :
       /\ r \notin votes
       /\ votes' = votes \cup {r}
       /\ total_votes' = [total_votes EXCEPT ![r.election_id] = @ + 1]
       /\ votes_count' = [votes_count EXCEPT ![r.candidate_list_id] = @ + 1]

\* C3: a step that is not the commit of an administrative procedure changes
\* the ballots or a counter only by committing one insert, which adds that
\* one ballot, adds 1 to its election's total_votes and adds 1 to its list's
\* votes_count, all in the one step; a request that reports success has
\* committed just that; so a failed or aborted cast leaves neither a ballot
\* nor an increment.
C3_BallotAndCountersTogether ==
  [][/\ (votes' # votes \/ total_votes' # total_votes \/ votes_count' # votes_count)
          => (AdminCommitStep \/ \E s \in Sessions : BallotCommitStep(s))
     /\ \A s \in Sessions :
          (tx[s].op \in InsertOps /\ tx[s].pc \in {"inserted", "updE"}
             /\ tx'[s].pc = "idle" /\ res'[s] = "ok") => BallotCommitStep(s)
    ]_vars

\* One insert has committed and another has been aborted in flight; there is
\* one ballot and one vote counted.
C3_OneCommittedOneAborted ==
  \E s, t \in Sessions :
    /\ tx[s].op \in InsertOps /\ res[s] = "ok"
    /\ tx[t].op \in InsertOps /\ res[t] = "aborted"
    /\ Cardinality(votes) = 1
    /\ SumOver(total_votes, Elections) = 1
    /\ SumOver(votes_count, Lists) = 1

C9_ReceiptsDistinct ==
  /\ \A v, w \in votes : v.receipt_hash = w.receipt_hash => v = w
  /\ \A s \in Sessions : \A v \in Settled(s) :
       \A e \in Elections, l \in Lists, u \in Users :
         LET row == VoteRow(e, l, u, v.receipt_hash) IN
           CanDecide(s, row, v.receipt_hash)
             => InsertError(s, row, v.receipt_hash, Settled(s)) \in {"42501", "23505"}

\* An insert was refused with 23505 although its voter has no ballot in its
\* election: it carried the receipt of a stored ballot.
C9_ReceiptCollisionRefused ==
  \E s \in Sessions :
    /\ tx[s].pc = "idle" /\ tx[s].op \in InsertOps /\ res[s] = "23505"
    /\ votes # {}
    /\ \A v \in votes : ~(v.user_id = tx[s].u /\ v.election_id = tx[s].e)

C6_OnlyWhileVotingOpen ==
  [][\A s \in Sessions :
       /\ (tx[s].pc \in {"idle", "prechecked"} /\ tx'[s].pc = "inserted")
            => (tx'[s].e \in Elections /\ status[tx'[s].e] = "voting_open")
       /\ (tx[s].pc = "prechecked" /\ tx'[s].pc # "prechecked"
             /\ status[tx[s].e] # "voting_open")
            => (tx'[s].pc = "idle" /\ res'[s] = "42501" /\ UnchangedDb)
       /\ (tx[s].pc = "idle" /\ tx'[s] # tx[s] /\ tx'[s].op \in InsertOps
             /\ tx'[s].e \in Elections /\ status[tx'[s].e] # "voting_open")
            => (tx'[s].pc = "idle" /\ res'[s] \in {"42501", "not_eligible"} /\ UnchangedDb)
    ]_vars

\* An authenticated voter's cast_vote for an existing list of its election
\* was refused with 42501; the election is not open and holds no ballot.
C6_RefusedWhileNotOpen ==
  \E s \in Sessions :
    /\ Uid(s) # NULL /\ tx[s].pc = "idle" /\ tx[s].op = "cast" /\ res[s] = "42501"
    /\ tx[s].l \in Lists /\ ListElection[tx[s].l] = tx[s].e
    /\ status[tx[s].e] # "voting_open"
    /\ votes = {}

\* The insert request names an existing list of another election.
Mismatched(t) ==
  /\ t.op \in InsertOps
  /\ t.e \in Elections /\ t.l \in Lists
  /\ ListElection[t.l] # t.e

\* C7 as stated: a cast naming a list of another election always fails with
\* the foreign-key violation 23503.
C7_AlwaysForeignKeyViolation ==
  \A s \in Sessions : (Mismatched(tx[s]) /\ tx[s].pc = "idle") => res[s] = "23503"

\* C7: a cast naming a list of another election always fails and stores no
\* row, so every ballot's list belongs to the ballot's election.  The error is
\* the foreign-key violation 23503 exactly when the caller is authenticated,
\* the election is voting_open and no stored ballot has the caller and the
\* election, or the receipt; it is 42501 exactly when the caller is not
\* authenticated or the election is not open, and 23505 otherwise.
C7_MismatchedListRefused ==
  /\ \A v \in votes \cup UNION {tx[t].row : t \in Sessions} :
       v.candidate_list_id \in Lists /\ ListElection[v.candidate_list_id] = v.election_id
  /\ \A s \in Sessions :
       Mismatched(tx[s])
         => (tx[s].pc = "idle" /\ tx[s].row = {} /\ res[s] \in {"42501", "23505", "23503"})
  /\ \A s \in Sessions, e \in Elections, l \in Lists, g \in Receipts :
       LET row == VoteRow(e, l, Uid(s), make_receipt(g))
           err == InsertError(s, row, g, Settled(s))
       IN (ListElection[l] # e /\ CanDecide(s, row, g)) =>
            /\ err \in {"42501", "23505", "23503"}
            /\ err = "42501" <=> (Uid(s) = NULL \/ status[e] # "voting_open")
            /\ err = "23503" <=>
                 /\ Uid(s) # NULL
                 /\ status[e] = "voting_open"
                 /\ \A v \in Settled(s) :
                      /\ ~(v.user_id = Uid(s) /\ v.election_id = e)
                      /\ v.receipt_hash # make_receipt(g)

\* A cast naming a list of another election was refused with 23503.
C7_ForeignKeyViolationReported ==
  \E s \in Sessions :
    Mismatched(tx[s]) /\ tx[s].op = "cast" /\ tx[s].pc = "idle" /\ res[s] = "23503"

\* C8: a row enters the table only as the row of an authenticated session
\* whose user it names, and is committed by that session; an insert that
\* names another user, or comes from a caller who is not authenticated, is
\* refused (42501) and writes nothing.
C8_BallotNamesCaller ==
  [][/\ \A s \in Sessions :
          /\ (tx[s].pc \in {"idle", "prechecked"} /\ tx'[s].pc = "inserted")
               => (Uid(s) # NULL /\ \A r \in tx'[s].row : r.user_id = Uid(s))
          /\ (tx[s].pc \in {"idle", "prechecked"} /\ tx'[s] # tx[s]
                /\ tx'[s].op \in InsertOps /\ tx'[s].pc # "prechecked"
                /\ (Uid(s) = NULL \/ tx'[s].u # Uid(s)))
               => (tx'[s].pc = "idle" /\ res'[s] = "42501" /\ UnchangedDb)
     /\ \A r \in votes' \ votes :
          \E s \in Sessions :
            /\ tx[s].pc = "updE" /\ tx'[s].pc = "idle" /\ r \in tx[s].row
            /\ Uid(s) # NULL /\ r.user_id = Uid(s)
    ]_vars

\* A direct insert in the name of another user was refused with 42501 and
\* no ballot of that user is stored.
C8_ForeignUserRefused ==
  \E s \in Sessions :
    /\ tx[s].op = "insert" /\ tx[s].u # Uid(s) /\ Uid(s) # NULL
    /\ tx[s].pc = "idle" /\ res[s] = "42501"
    /\ \A v \in votes : v.user_id # tx[s].u

C11_BallotsLeaveOnlyByReset ==
  [][\A v \in votes \ votes' :
       \E s \in Sessions :
         /\ tx[s].op = "reset" /\ tx[s].pc = "reset_lists"
         /\ tx'[s].pc = "idle" /\ res'[s] = "ok"
         /\ tx[s].e = v.election_id
    ]_vars

\* Session s commits its reset in this step.
ResetCommitStep(s) ==
  /\ tx[s].op = "reset" /\ tx[s].pc = "reset_lists"
  /\ tx'[s].pc = "idle" /\ res'[s] = "ok"

\* C12 as stated: the commit of an administrator's reset of E leaves
\* total_votes of E at 0, votes_count of every list of E at 0 and no ballot
\* of E, and the steps of the reset before its commit change nothing that
\* another caller can read.
C12_ResetLeavesNothing ==
  [][\A s \in Sessions :
       /\ ResetCommitStep(s) =>
            /\ total_votes'[tx[s].e] = 0
            /\ \A l \in ListsOf(tx[s].e) : votes_count'[l] = 0
            /\ {v \in votes' : v.election_id = tx[s].e} = {}
       /\ (tx'[s] # tx[s] /\ tx'[s].op = "reset" /\ ~ResetCommitStep(s)) => UnchangedDb
    ]_vars

\* Session s commits its simulation in this step.
SimulationCommitStep(s) ==
  /\ tx[s].op = "simulate" /\ tx[s].pc = "sim_lists"
  /\ tx'[s].pc = "idle" /\ res'[s] = "ok"

\* C13: a simulation goes on to its updates only for an existing election
\* and a distribution all of whose keys are lists of that election; a
\* simulation request that ends at its checks (42501, 22023, 23503) leaves
\* every list counter, every election counter and the ballots as they were,
\* the counters of the valid lists named beside an invalid one included.
C13_SimulationAllOrNothing ==
  [][\A s \in Sessions :
       /\ tx'[s].pc = "sim_lists" =>
            /\ tx'[s].e \in elections
            /\ \A k \in DOMAIN tx'[s].dist : k \in Lists /\ ListElection[k] = tx'[s].e
       /\ (tx[s].pc = "idle" /\ tx'[s].pc = "idle" /\ tx'[s].op = "simulate"
             /\ (tx'[s] # tx[s] \/ res'[s] # res[s]))
            => (res'[s] \in {"42501", "22023", "23503"} /\ UnchangedDb)
    ]_vars

\* The administrator's simulation was refused for a key that is not a list
\* of the election, and no counter has moved.
C13_InvalidListRefused ==
  /\ tx["adm"].op = "simulate" /\ tx["adm"].pc = "idle" /\ res["adm"] = "23503"
  /\ tx["adm"].e \in elections
  /\ \A e \in Elections : total_votes[e] = 0
  /\ \A l \in Lists : votes_count[l] = 0

C15_AdminProceduresCheckRole ==
  [][\A s \in Sessions :
       (Uid(s) # NULL /\ "administrator" \notin jwt_roles(s)) =>
         /\ tx'[s].pc \notin {"sim_lists", "reset_del", "reset_lists"}
         /\ (tx[s].pc = "idle" /\ tx'[s].op \in {"simulate", "reset"}
               /\ (tx'[s] # tx[s] \/ res'[s] # res[s]))
              => (tx'[s].pc = "idle" /\ res'[s] = "42501" /\ UnchangedDb)
    ]_vars

\* A voter's reset request was refused with 42501 and the ballot of the
\* election is still stored and counted.
C15_VoterResetRefused ==
  \E s \in Sessions :
    /\ Uid(s) # NULL /\ ~is_admin(s)
    /\ tx[s].op = "reset" /\ tx[s].pc = "idle" /\ res[s] = "42501"
    /\ BallotsOfElection(tx[s].e) # {}
    /\ total_votes[tx[s].e] = 1

\* Session s takes this step.
Acts(s) == tx'[s] # tx[s] \/ res'[s] # res[s]

\* The step changes a row of elections, candidate_lists or candidates.
StructureChanges ==
  \/ elections' # elections \/ status' # status \/ edited' # edited
  \/ total_votes' # total_votes \/ votes_count' # votes_count

C17_BallotsReadByOwnerOrRole ==
  \A s \in Sessions :
    tx[s].op = "select" =>
      \A v \in tx[s].seen :
        \/ v.user_id = Uid(s)
        \/ "administrator" \in jwt_roles(s)
        \/ "electoral_committee" \in jwt_roles(s)

\* Student u1 has read the table and got no row, the committee member has
\* read it and got the ballot of u2, which is stored all the while.
C17_StudentSeesOwnBallotOnly ==
  /\ tx["s1"].op = "select" /\ tx["s1"].seen = {}
  /\ tx["com"].op = "select" /\ BallotU2 \in tx["com"].seen
  /\ BallotU2 \in votes

\* The transitions of the election state machine.
StateMachine ==
  {<<"draft", "scheduled">>, <<"draft", "campaign">>, <<"scheduled", "campaign">>,
   <<"draft", "voting_open">>, <<"scheduled", "voting_open">>,
   <<"campaign", "voting_open">>,
   <<"voting_open", "paused">>, <<"paused", "voting_open">>,
   <<"voting_open", "voting_closed">>, <<"paused", "voting_closed">>,
   <<"voting_closed", "results_published">>}

\* C18 as stated: every step that changes the status of an election follows
\* a transition of the state machine (a request for any other transition
\* leaves the status unchanged), and an election whose status is
\* results_published keeps its row and that status.
C18_OnlyStateMachineTransitions ==
  [][\A e \in Elections :
       /\ status'[e] # status[e] => <<status[e], status'[e]>> \in StateMachine
       /\ (e \in elections /\ status[e] = "results_published") =>
            (e \in elections' /\ status'[e] = "results_published")
    ]_vars

\* A cast of session s has ended rejected.
Rejected(s) ==
  /\ tx[s].op = "cast" /\ tx[s].pc = "idle"
  /\ res[s] \in {"not_eligible", "has_voted", "42501", "23505", "23503"}

\* The error kind of a rejected cast, as far as the caller's identity and the
\* answer of the pre-checks or of the database determine it.
ErrorKind(s) ==
  CASE tx[s].u = NULL -> "NotAuthenticated"
    [] res[s] \in {"has_voted", "23505"} -> "AlreadyVoted"
    [] res[s] = "23503" -> "InvalidList"
    [] OTHER -> "ElectionNotOpen"

\* C19 as stated: rejected casts of different error kinds stay
\* distinguishable to the caller of castVote, by the value it returns or by
\* the message it shows.
C19_ErrorKindsDistinguishable ==
  \A s, t \in Sessions :
    (Rejected(s) /\ Rejected(t) /\ ErrorKind(s) # ErrorKind(t)) =>
      <<castVoteReturn(res[s]), castVoteToast(res[s])>>
        # <<castVoteReturn(res[t]), castVoteToast(res[t])>>

\* The racing requests that have committed a ballot.
Succeeded == {s \in Racers : tx[s].op = "cast" /\ tx[s].pc = "idle" /\ res[s] = "ok"}

\* C20: whatever the interleaving of the racing casts on election E1, whose
\* counters start at 0, total_votes of E1 is the number of casts that have
\* succeeded and votes_count of every list is the number of those that chose
\* it; and a completed cast is refused only where another request of the
\* same voter races with it, never on account of another voter's ballot.
C20_NoIncrementLost ==
  /\ total_votes["E1"] = Cardinality(Succeeded)
  /\ \A l \in Lists : votes_count[l] = Cardinality({s \in Succeeded : tx[s].l = l})
  /\ \A s \in Racers :
       (tx[s].op = "cast" /\ tx[s].pc = "idle" /\ res[s] \notin {"ok", "aborted"}) =>
         \E t \in Racers \ {s} : Uid(t) = Uid(s) /\ tx[t].op = "cast"

\* Voters u1 and u2 have both cast for list L1 and both ballots are counted.
C20_TwoVotersOneList ==
  \E s, t \in Succeeded :
    /\ Uid(s) # Uid(t)
    /\ tx[s].l = "L1" /\ tx[t].l = "L1"
    /\ votes_count["L1"] = 2 /\ total_votes["E1"] = 2

\* C21 as stated: a step taken while an election's status is
\* results_published changes neither its total_votes, nor the votes_count of
\* its lists, nor its set of ballot rows.
C21_PublishedIsReadOnly ==
  [][\A e \in Elections :
       (e \in elections /\ status[e] = "results_published") =>
         /\ total_votes'[e] = total_votes[e]
         /\ \A l \in ListsOf(e) : votes_count'[l] = votes_count[l]
         /\ {v \in votes' : v.election_id = e} = BallotsOfElection(e)
    ]_vars

\* The rows of candidate_lists stored for election e: which they are,
\* whatever their votes_count.
StoredLists(e, ls, ins) ==
  <<{l \in ls : ListElection[l] = e}, {r.of : r \in InsertedOf(ins, e)}>>

\* C22 as stated: a step that creates, replaces or removes candidate_lists
\* rows of an election is taken while the election's status is draft,
\* scheduled, campaign or paused.
C22_ListsEditedOnlyWhileEditable ==
  [][\A e \in Elections :
       StoredLists(e, lists', inserted') # StoredLists(e, lists, inserted) =>
         status[e] \in {"draft", "scheduled", "campaign", "paused"}
    ]_vars

\* C28 as stated: when updateElection with a candidateLists payload has
\* ended for election e, total_votes of e equals the sum of votes_count over
\* the lists stored for e.
C28_UpdateKeepsTally ==
  [][\A s \in Sessions :
       (tx[s].op = "edit" /\ tx[s].pc = "lists_deleted" /\ tx'[s].pc = "idle") =>
         total_votes'[tx[s].e] = StoredSum(tx[s].e, lists', inserted', votes_count')
    ]_vars

\* C23 as stated: when castVote's pre-checks let a cast go on to the
\* cast_vote request, no ballot of the voter for the election is stored at
\* that moment: a ballot committed earlier is detected.
C23_RetryChecksStoredBallots ==
  [][\A s \in Sessions :
       (tx[s].pc = "idle" /\ tx'[s].pc = "prechecked") =>
         ~\E v \in votes : v.election_id = tx'[s].e /\ v.user_id = Uid(s)
    ]_vars

\* C24 as stated: when every notification is delivered and every fetch is
\* answered, the counters held by the client are, from some moment on, the
\* stored ones.
C24_ClientEventuallyCurrent == <>[](client.view = total_votes)

\* C25 as stated: when casts and resets have run concurrently and every
\* transaction has committed, each election's total_votes is the number of
\* its ballot rows and each list's votes_count the number of ballot rows
\* that reference it.
C25_TalliesMatchAfterRace ==
  (\A s \in Sessions : tx[s].pc \notin InFlight) =>
    /\ \A e \in Elections : total_votes[e] = Cardinality(BallotsOfElection(e))
    /\ \A l \in Lists : votes_count[l] = Cardinality(BallotsOfList(l))

\* Transaction s waits for a row lock that transaction t holds.
WaitsFor(s, t) ==
  \/ tx[s].pc = "inserted" /\ LocksElection(t, tx[s].e)
  \/ tx[s].pc = "updE" /\ LocksList(t, tx[s].l)
  \/ tx[s].pc = "reset_del" /\ \E l \in ListsOf(tx[s].e) : LocksList(t, l)
  \/ tx[s].pc \in {"sim_lists", "reset_lists"} /\ LocksElection(t, tx[s].e)

\* C26 as stated: no two transactions in flight wait for each other's row
\* locks.
C26_NoLockCycle ==
  ~\E s, t \in Sessions : s # t /\ WaitsFor(s, t) /\ WaitsFor(t, s)

\* ------------------------------------------------------------- signed counts

\* A value of p_distribution: JSON null (the empty sequence) or an integer of
\* either sign.
JsonCounts == {<<>>} \cup {<<n>> : n \in (0 - MaxSimCount) .. MaxSimCount}

JsonDistributions ==
  UNION {[S -> JsonCounts] : S \in (SUBSET {"L1", "L3"}) \ {{}}}

\* coalesce((value)::int, 0), for every key of the distribution
CoalescedCounts(json) ==
  [k \in DOMAIN json |-> IF json[k] = <<>> THEN 0 ELSE json[k][1]]

\* The administrator's simulations with counts of either sign or null, casts
\* of two voters' sessions and resets.
NextSigned ==
  \/ \E e \in Elections, json \in JsonDistributions :
        AdminApplySimulation("adm", e, CoalescedCounts(json))
  \/ \E s \in Sessions : SimulationCommit(s)
  \/ \E s \in {"s1", "s4"} : \E i \in CastInputs("s2") : CastVote(s, i[1], i[2], i[3])
  \/ InsertSteps
  \/ \E e \in Elections : AdminResetElectionVotes("adm", e)
  \/ \E s \in Sessions : ResetLists(s)
  \/ \E s \in Sessions : ResetCommit(s)

SpecSigned == Init /\ [][NextSigned]_vars

\* C27 as stated: every list's votes_count and every election's total_votes
\* is at least zero in every reachable state, whatever counts (of either sign,
\* or null) the simulations' distributions carry.
C27_CountersNonNegative ==
  /\ \A l \in Lists : votes_count[l] >= 0
  /\ \A e \in Elections : total_votes[e] >= 0

\* ------------------------------------------------------------- roles

\* extractUserRoles: the roles of app_metadata, then those of user_metadata;
\* a user with neither administrator nor electoral_committee is a student.
extractUserRoles(rec) ==
  LET allRoles == rec.app_metadata \cup rec.user_metadata
  IN IF allRoles \cap Roles = {} THEN {"student"} ELSE allRoles

\* supabase.auth.signUp with options.data.roles = roles: the record of user u
\* is created with these roles in user_metadata.  The application's form
\* sends the empty list; a caller of the endpoint sends any.
signUp(u, roles) ==
  /\ ~auth_users[u].signed_up
  /\ ops < MaxOps
  /\ ops' = ops + 1
  /\ auth_users' = [auth_users EXCEPT ![u] =
                      [signed_up |-> TRUE, app_metadata |-> {}, user_metadata |-> roles]]
  /\ UNCHANGED <<elections, status, total_votes, votes_count, votes, tx, res, simulated,
                  edited, lists, inserted, voteCheckCache, client>>

\* newRoles of manage-user-roles
newRoles(currentRoles, roles, action) ==
  CASE action = "set" -> roles
    [] action = "add" -> currentRoles \cup roles
    [] action = "remove" -> currentRoles \ roles

\* The edge function manage-user-roles, called with the token of session s:
\* 401 without a valid token, 403 when the caller's roles lack administrator,
\* 404 when the target has no record, else app_metadata.roles of the target
\* becomes newRoles.
ManageUserRoles(s, userId, roles, action) ==
  /\ Start(s)
  /\ LET user == Uid(s)
         code ==
           IF user = NULL THEN "401"
           ELSE IF ~auth_users[user].signed_up THEN "401"
           ELSE IF "administrator" \notin
                     auth_users[user].app_metadata \cup auth_users[user].user_metadata
                  THEN "403"
           ELSE IF ~auth_users[userId].signed_up THEN "404"
           ELSE "ok"
     IN /\ res' = [res EXCEPT ![s] = code]
        /\ auth_users' =
             IF code = "ok"
               THEN [auth_users EXCEPT ![userId].app_metadata =
                       newRoles(auth_users[userId].app_metadata, roles, action)]
               ELSE auth_users
  /\ UNCHANGED <<elections, status, total_votes, votes_count, votes, tx, simulated,
                  edited, lists, inserted, voteCheckCache, client>>

\* Voter u2 has not signed up yet.
InitRoles ==
  /\ elections = Elections
  /\ status = [e \in Elections |-> "voting_open"]
  /\ total_votes = [e \in Elections |-> 0]
  /\ votes_count = [l \in Lists |-> 0]
  /\ votes = {}
  /\ tx = [s \in Sessions |-> Idle]
  /\ res = [s \in Sessions |-> "none"]
  /\ ops = 0
  /\ simulated = [l \in Lists |-> 0]
  /\ edited = {}
  /\ lists = Lists
  /\ inserted = {}
  /\ voteCheckCache = [s \in Sessions |-> [e \in Elections |-> "absent"]]
  /\ client = Loaded([e \in Elections |-> 0])
  /\ auth_users = [SeededUsers EXCEPT !["u2"] = NoAccount]

\* u2 signs up; the administrator, the committee member and u2 call
\* manage-user-roles for the voters and the administrator; u2, once signed
\* up, calls an administrator's procedure.
NextRoles ==
  \/ \E roles \in SUBSET Roles : signUp("u2", roles)
  \/ \E s \in {"adm", "com", "s4", "anon"}, userId \in {"u1", "u2", "a1"},
        roles \in (SUBSET Roles) \ {{}}, action \in {"set", "add", "remove"} :
        ManageUserRoles(s, userId, roles, action)
  \/ auth_users["u2"].signed_up /\ AdminResetElectionVotes("s4", "E1")
  \/ \E s \in Sessions : ResetLists(s)
  \/ \E s \in Sessions : ResetCommit(s)

SpecRoles == InitRoles /\ [][NextRoles]_vars

\* User u is treated as holding role r: by the policies and procedures
\* (jwt_roles), by manage-user-roles and by the client (extractUserRoles).
TreatedAs(rec, r) ==
  \/ r \in rec.app_metadata \cup rec.user_metadata
  \/ r \in extractUserRoles(rec)

\* C29 as stated: a user comes to be treated as administrator or committee
\* member only in a step in which a user who is already treated as
\* administrator grants the role in app_metadata; roles a user supplied in
\* their own metadata confer nothing.
C29_RolesOnlyByGrant ==
  [][\A u \in Users, r \in Roles :
       (TreatedAs(auth_users'[u], r) /\ ~TreatedAs(auth_users[u], r)) =>
         /\ r \in auth_users'[u].app_metadata
         /\ auth_users'[u].user_metadata = auth_users[u].user_metadata
         /\ \E a \in Users : auth_users[a].signed_up /\ TreatedAs(auth_users[a], "administrator")
    ]_vars

\* The three operations that move the counters.
TallyOps == {"cast", "simulate", "reset"}

\* C30: a step of cast_vote, admin_apply_simulation or
\* admin_reset_election_votes for election e leaves the status of every
\* election (e included) as it is, and the total_votes, the lists'
\* votes_count and the ballots of every other election as they are.
C30_OtherElectionsUntouched ==
  [][\A s \in Sessions :
       (tx'[s] # tx[s] /\ tx'[s].op \in TallyOps) =>
         LET e == tx'[s].e IN
           /\ status' = status
           /\ \A f \in Elections \ {e} : total_votes'[f] = total_votes[f]
           /\ \A l \in Lists : ListElection[l] # e => votes_count'[l] = votes_count[l]
           /\ {v \in votes' : v.election_id # e} = {v \in votes : v.election_id # e}
    ]_vars

\* A reset of E1 has committed while E2 keeps its ballot and its counters.
C30_ResetBesideOtherElection ==
  /\ tx["adm"].op = "reset" /\ tx["adm"].e = "E1" /\ res["adm"] = "ok"
  /\ \E v \in votes : v.election_id = "E2"
  /\ total_votes["E2"] = 1
  /\ votes_count["L3"] = 1


====
